---- MODULE Spec2Model ----
(***************************************************************************)
(* Beat-synchronised lamp control: LightController (light_controller.py)   *)
(* and the fade mirror LampStateMirror / _ChannelFadeSimulator             *)
(* (mixxx_gui.py).                                                         *)
(*                                                                         *)
(* Conventions                                                             *)
(*  - Python None / falsy values: 0 for a missing timestamp, thread or     *)
(*    connection, "" for a missing port name.                              *)
(*  - A `with self._lock:` block is one atomic step; every unlocked access *)
(*    to a shared field and every I/O call is a step of its own.           *)
(*  - Engine time is counted in ticks of 100 ms (the debounce window of    *)
(*    0.2 s is 2 ticks); simulator time is counted in milliseconds.        *)
(*  - Durations of sleeps, joins and serial calls are not known, so every  *)
(*    wait may end at any moment (a superset of the real schedules).       *)
(***************************************************************************)
EXTENDS Integers, Sequences, FiniteSets, TLC

(* ------------------------------ bounds -------------------------------- *)
MaxClock == 3
MaxWorkers == 1
MaxConns == 2
MaxCalls == 3
MaxSimTime == 6

(* --------------------------- program constants ------------------------ *)
DebounceTicks == 2
CounterModulus == 8
DecayMax == 10000
DefaultFadeOutMs == 1000
CycleFadeInMs == 2500
CycleFadeOutMs == 2500
CycleIntervalMs == 2000
SliderFadeIntervalMs == 2500
SliderFadeDurationMs == 1200
StrobeIntervalMs == 50
StrobeFadeInMs == 0
StrobeFadeOutMs == 25
WorkerErrorWaitMs == 1000

Modes ==
  {"off", "on", "fade_sync", "auto_rgb_fade", "beat_rgb_step",
   "slider_slow_fade", "fade_sync_every_4", "strobe"}

WorkerModes == {"auto_rgb_fade", "slider_slow_fade", "strobe"}

BeatModes == {"fade_sync", "beat_rgb_step", "fade_sync_every_4"}

CycleColors == << <<255, 0, 0>>, <<0, 255, 0>>, <<0, 0, 255>> >>

(* ------------------------------ inputs -------------------------------- *)
Callers == {"ui", "midi"}
WorkerNames == <<"w1", "w2", "w3", "w4">>
\* two callers racing through set_mode may start one task more
RaceWorkers == MaxWorkers + 1
Workers == {WorkerNames[i] : i \in 1..RaceWorkers}
Procs == Callers \cup Workers

RgbInputs == { <<-20, 300, 128>> }
DecayInputs == {-5, 20000}
BpmInputs == {0, 120}
Delays == 0..2
Ports == {"COM3"}
DevPorts == {"COM3", "COM4"}
DevModes == {"off", "on", "fade_sync", "strobe"}

\* commands given to the mirror; the durations are powers of two, so that
\* the float quotient (now_ms - phase_start_ms) / fade_ms is exact
SimColors == { <<50, 50, 50>>, <<0, 100, 0>> }
SimFades == {0, 2, 4}
SimSteps == 1..2

(* ------------------------------ helpers ------------------------------- *)
Min(a, b) == IF a < b THEN a ELSE b
Max(a, b) == IF a > b THEN a ELSE b

\* a clamp that forgets the upper limit
ClampByteNoCeiling(v) == Max(0, v)

ClampByte(v) == Max(0, Min(v, 255))

\* a colour clamp that only floors at 0
ClampRgbFloorOnly(rgb) == <<Max(0, rgb[1]), Max(0, rgb[2]), Max(0, rgb[3])>>

ClampRgb(rgb) == <<ClampByte(rgb[1]), ClampByte(rgb[2]), ClampByte(rgb[3])>>

ClampDecay(ms) == Max(0, Min(ms, DecayMax))

NoLine == <<>>
OffLine == <<"OFF">>

\* _send_rgb: the bytes of "RGB r g b fade_in fade_out\n" as a tuple of fields
RgbLine(rgb, fade_in, fade_out) ==
  <<"RGB", ClampByte(rgb[1]), ClampByte(rgb[2]), ClampByte(rgb[3]),
    Max(0, fade_in), Max(0, fade_out)>>

VARIABLES
  clock,              \* the latest reading of time.time(), in ticks of 100 ms
  mode, color, fade_out_ms, beat_counter, cycle_index, last_beat_send_ts,
  worker_thread,      \* name of the Thread object, "" for None
  worker_stop,        \* index of the Event object held by the controller
  events,             \* events[i]: is Event i set; events[1] is made by __init__
  com_port, serial,   \* serial: index into conns, 0 for None
  conns,              \* every serial.Serial object opened so far
  mirror_last,        \* last command handed to the mirror sink
  wire,               \* last line written to a serial device, and by whom
  proc,               \* per thread: position, arguments and locals
  reserved,           \* number of worker starts requested so far
  lock,               \* the thread inside a `with self._lock` block, "" if none
  budget,             \* foreground calls still allowed, -1 when not limited
  \* history, read by the properties only
  beat_emits,         \* invocation times of the last two emitting handle_beat calls
  beats_since,        \* beats dispatched in FADE_SYNC_EVERY_4 since set_mode
  steps_since,        \* beats dispatched in BEAT_RGB_STEP since set_mode
  off_after,          \* AUTO_RGB_FADE tasks cancelled by a set_mode(OFF) whose OFF is written
  \* LampStateMirror
  mono,               \* the latest reading of time.monotonic() * 1000.0
  fades,              \* the three _ChannelFadeSimulator objects
  current,            \* LampStateMirror._current
  last_command,       \* LampStateMirror._last_command
  sim_op,             \* history: the last thing that happened to the mirror
  sim_cmd,            \* history: the last command given, and when
  sim_rep,            \* history: how often that command was given in a row at one
                      \* reading of the clock (2 for twice or more), and the
                      \* fades and levels its first application left
  twin                \* a second LampStateMirror, given the same commands at the
                      \* same times and polled on a schedule of its own

settingVars == <<mode, color, fade_out_ms>>
beatVars == <<beat_counter, cycle_index, last_beat_send_ts>>
workerVars == <<worker_thread, worker_stop, events>>
portVars == <<com_port, serial, conns>>
engineVars == <<settingVars, beatVars, workerVars, portVars>>
histVars == <<beat_emits, beats_since, steps_since, off_after>>
controllerVars ==
  <<clock, engineVars, mirror_last, wire, proc, reserved, lock, budget, histVars>>
simVars == <<mono, fades, current, last_command, sim_op, sim_cmd, sim_rep, twin>>

vars == <<controllerVars, simVars>>

IdleProc ==
  [pc |-> "idle", op |-> "none", a_mode |-> "off", a_rgb |-> <<0, 0, 0>>,
   a_ms |-> 0, now |-> 0, l_mode |-> "off", l_color |-> <<0, 0, 0>>,
   l_fade |-> 0, thread |-> "", line |-> NoLine, port |-> "", ser |-> 0,
   wait_for |-> 0, ev |-> 0, sent |-> <<>>, wrote |-> <<>>, err |-> "none",
   accepted |-> FALSE, a_port |-> "", sunk |-> <<>>, sink_raised |-> FALSE,
   werrs |-> <<>>, since_acc |-> 0 - 1, pre |-> <<>>]

UnbornWorker == [IdleProc EXCEPT !.pc = "unborn"]

\* LightController.__init__
InitController ==
  /\ clock = 1
  /\ mode = "off"
  /\ color = <<0, 0, 0>>
  /\ fade_out_ms = DefaultFadeOutMs
  /\ beat_counter = 0
  /\ cycle_index = 0
  /\ last_beat_send_ts = 0
  /\ worker_thread = ""
  /\ worker_stop = 1
  /\ events = <<FALSE>>
  /\ com_port = ""
  /\ serial = 0
  /\ conns = <<>>
  /\ mirror_last = NoLine
  /\ wire = [line |-> NoLine, by |-> ""]
  /\ proc = [p \in Procs |-> IF p \in Callers THEN IdleProc ELSE UnbornWorker]
  /\ reserved = 0
  /\ lock = ""
  /\ beat_emits = <<>>
  /\ beats_since = 0
  /\ steps_since = 0
  /\ off_after = {}

\* _ChannelFadeSimulator.__init__
NewFade ==
  [target |-> 0, fade_in_ms |-> 0, fade_out_ms |-> 0, phase_start_ms |-> 0,
   phase |-> "idle"]

NoCommand == [rgb |-> <<0, 0, 0>>, fade_in_ms |-> 0, fade_out_ms |-> 0, state |-> "off"]

\* LampStateMirror.__init__
InitMirror ==
  /\ mono = 0
  /\ fades = <<NewFade, NewFade, NewFade>>
  /\ current = <<0, 0, 0>>
  /\ last_command = NoCommand
  /\ sim_op = "init"
  /\ sim_cmd = [NoCommand EXCEPT !.state = "none"] @@ [at |-> 0]
  /\ sim_rep = [n |-> 0, once |-> <<>>]
  /\ twin = [fades |-> <<NewFade, NewFade, NewFade>>, current |-> <<0, 0, 0>>,
             polled |-> 0 - 1]

Init == InitController /\ InitMirror /\ budget = MaxCalls

(* ------------------------- thread bookkeeping ------------------------- *)
\* a foreground call begins: one unit of the budget goes, if there is one
Spend ==
  /\ budget # 0
  /\ budget' = IF budget > 0 THEN budget - 1 ELSE budget

IsWorker(p) == p \in Workers

Alive(w) == proc[w].pc \notin {"unborn", "dead"}

SetProc(p, rec) == proc' = [proc EXCEPT ![p] = rec]

\* a call returns: the locals go, what the call did stays readable
Done(f) ==
  [IdleProc EXCEPT !.op = f.op, !.a_mode = f.a_mode, !.a_rgb = f.a_rgb,
                   !.a_ms = f.a_ms, !.l_mode = f.l_mode,
                   !.accepted = f.accepted, !.sent = f.sent, !.wrote = f.wrote,
                   !.err = f.err, !.a_port = f.a_port, !.sunk = f.sunk,
                   !.sink_raised = f.sink_raised, !.werrs = f.werrs,
                   !.since_acc = f.since_acc]

\* a task that ends at the first exception
RaiseKills(p, f, kind) ==
  IF IsWorker(p)
    THEN [f EXCEPT !.pc = "dead", !.err = kind]
    ELSE [Done(f) EXCEPT !.err = kind]

\* an exception leaves the transport: it propagates out of a foreground
\* call; _worker_loop catches it and sleeps the fallback interval
Raise(p, f, kind) ==
  IF IsWorker(p)
    THEN [f EXCEPT !.pc = "w_wait", !.err = kind, !.wait_for = WorkerErrorWaitMs,
                   !.line = NoLine, !.ser = 0, !.port = "", !.sent = <<>>,
                   !.sunk = <<>>, !.sink_raised = FALSE]
    ELSE [Done(f) EXCEPT !.err = kind]

\* where control goes when _send_rgb / _send_off returns
AfterSend(p, f) ==
  IF IsWorker(p)
    THEN [f EXCEPT !.pc = "w_wait", !.line = NoLine, !.ser = 0, !.sent = <<>>,
                   !.wrote = <<>>, !.sunk = <<>>, !.sink_raised = FALSE,
                   !.werrs = <<>>]
  ELSE IF f.op = "handle_beat" THEN [f EXCEPT !.pc = "hb_stamp", !.line = NoLine, !.ser = 0]
  ELSE Done(f)

\* the history kept when thread p has written its line
Wrote(p) ==
  /\ wire' = [line |-> proc[p].line, by |-> p]
  /\ beat_emits' =
       IF proc[p].op = "handle_beat"
         THEN (IF beat_emits = <<>> THEN <<>> ELSE <<beat_emits[Len(beat_emits)]>>)
              \o <<proc[p].now>>
         ELSE beat_emits
  /\ off_after' =
       IF proc[p].op = "set_mode" /\ proc[p].line = OffLine
         THEN off_after \cup {w \in Workers : /\ Alive(w)
                                              /\ proc[w].l_mode = "auto_rgb_fade"
                                              /\ events[proc[w].ev]}
         ELSE off_after
  /\ UNCHANGED <<beats_since, steps_since>>

(* ------------------------------- the lock ----------------------------- *)
\* with self._lock: the block is entered when no thread is inside one
Unlocked == lock = ""

\* a transport that keeps the lock while it opens the port and writes
LockAfterHeldInIo(p, pc) == IF pc \in {"open", "write", "retry"} THEN p ELSE ""

\* the holder of the lock when a step of thread p has left it at pc: every
\* `with self._lock` block of the transport has ended before the mirror is
\* called, before serial.Serial(...) and before ser.write(...)
LockAfter(p, pc) == ""

(* ------------------------------ transport ----------------------------- *)
\* a port check that lets a missing port name through
ConfiguredAlways(port) == TRUE

\* _ensure_serial: if not port: raise RuntimeError(...)
Configured(port) == port # ""

\* a sink whose exception leaves _send_rgb / _send_off
SinkStopsOnError(raised) == raised

\* _send_rgb / _send_off: except Exception around the mirror call
SinkStops(raised) == FALSE

\* a send that writes without telling the mirror
SinkSkipped(raised, line) == mirror_last

\* self._mirror.handle_rgb(...) / handle_off(): the command the mirror holds
\* afterwards; a call that raises leaves the mirror's command as it was
SinkGets(raised, line) == IF raised THEN mirror_last ELSE line

\* _send_rgb/_send_off up to the first lock block of _ensure_serial: the
\* mirror is told (and returns or raises), then the connection and the port
\* name are read
SendEnterWith(p, raised) ==
  /\ proc[p].pc = "send"
  /\ Unlocked
  /\ mirror_last' = SinkGets(raised, proc[p].line)
  /\ LET f == [proc[p] EXCEPT !.sent = Append(@, proc[p].line),
                              !.sunk = Append(@, proc[p].line),
                              !.sink_raised = @ \/ raised]
     IN SetProc(p,
          IF SinkStops(raised)
            THEN Raise(p, f, "sink")
          ELSE IF serial # 0 /\ conns[serial].open
            THEN [f EXCEPT !.pc = "write", !.ser = serial]
          ELSE IF ~ Configured(com_port)
            THEN Raise(p, f, "not_configured")
          ELSE [f EXCEPT !.pc = "open", !.port = com_port])
  /\ lock' = LockAfter(p, proc'[p].pc)
  /\ UNCHANGED <<simVars, clock, engineVars, wire, reserved, histVars, budget>>

\* the mirror call returns
SendEnter(p) == SendEnterWith(p, FALSE)

\* the mirror call raises
SinkRaises(p) == SendEnterWith(p, TRUE)

\* _ensure_serial: serial.Serial(port, ...) succeeds and is stored
OpenOk(p) ==
  /\ proc[p].pc = "open"
  /\ Unlocked
  /\ Len(conns) < MaxConns
  /\ conns' = Append(conns, [port |-> proc[p].port, open |-> TRUE])
  /\ serial' = Len(conns) + 1
  /\ SetProc(p, [proc[p] EXCEPT !.pc = "write", !.ser = Len(conns) + 1, !.port = ""])
  /\ lock' = LockAfter(p, proc'[p].pc)
  /\ UNCHANGED <<simVars, clock, settingVars, beatVars, workerVars, com_port,
                 mirror_last, wire, reserved, histVars, budget>>

\* _ensure_serial: serial.Serial(port, ...) raises
OpenFail(p) ==
  /\ proc[p].pc = "open"
  /\ SetProc(p, Raise(p, proc[p], "device"))
  /\ lock' = LockAfter(p, proc'[p].pc)
  /\ UNCHANGED <<simVars, clock, engineVars, mirror_last, wire, reserved, histVars, budget>>

\* _write_line: the first ser.write(data) succeeds
WriteOk(p) ==
  /\ proc[p].pc = "write"
  /\ conns[proc[p].ser].open
  /\ Wrote(p)
  /\ SetProc(p, AfterSend(p, [proc[p] EXCEPT !.wrote = Append(@, proc[p].line)]))
  /\ lock' = LockAfter(p, proc'[p].pc)
  /\ UNCHANGED <<simVars, clock, engineVars, mirror_last, reserved, budget>>

\* a _write_line that tries again after every error of the first write
OnWriteErrorRetries(p, f, kind) == [f EXCEPT !.pc = "retry", !.werrs = Append(@, kind)]

\* _write_line: except serial.SerialTimeoutException catches the timeout of
\* the first write and nothing else
OnWriteError(p, f, kind) ==
  IF kind = "timeout"
    THEN [f EXCEPT !.pc = "retry", !.werrs = Append(@, kind)]
    ELSE Raise(p, [f EXCEPT !.werrs = Append(@, kind)], kind)

\* _write_line: the first ser.write(data) raises SerialTimeoutException
WriteTimeout(p) ==
  /\ proc[p].pc = "write"
  /\ conns[proc[p].ser].open
  /\ SetProc(p, OnWriteError(p, proc[p], "timeout"))
  /\ lock' = LockAfter(p, proc'[p].pc)
  /\ UNCHANGED <<simVars, clock, engineVars, mirror_last, wire, reserved, histVars, budget>>

\* _write_line: any other error of the first write (also a closed port)
WriteFail(p) ==
  /\ proc[p].pc = "write"
  /\ SetProc(p, OnWriteError(p, proc[p], "device"))
  /\ lock' = LockAfter(p, proc'[p].pc)
  /\ UNCHANGED <<simVars, clock, engineVars, mirror_last, wire, reserved, histVars, budget>>

\* _write_line: reset_output_buffer() and the second ser.write(data) succeed
RetryOk(p) ==
  /\ proc[p].pc = "retry"
  /\ conns[proc[p].ser].open
  /\ Wrote(p)
  /\ SetProc(p, AfterSend(p, [proc[p] EXCEPT !.wrote = Append(@, proc[p].line)]))
  /\ lock' = LockAfter(p, proc'[p].pc)
  /\ UNCHANGED <<simVars, clock, engineVars, mirror_last, reserved, budget>>

\* _write_line: the retry raises; nothing catches it inside _write_line
RetryFail(p) ==
  /\ proc[p].pc = "retry"
  /\ SetProc(p, Raise(p, [proc[p] EXCEPT !.werrs = Append(@, "device")], "device"))
  /\ lock' = LockAfter(p, proc'[p].pc)
  /\ UNCHANGED <<simVars, clock, engineVars, mirror_last, wire, reserved, histVars, budget>>

(* --------------------------- _stop_worker ----------------------------- *)
\* self._worker_stop.set(), the first statement of set_mode and of close
StopSet(t, rec) ==
  /\ events' = [events EXCEPT ![worker_stop] = TRUE]
  /\ SetProc(t, [rec EXCEPT !.pc = "stop_read"])

\* thread = self._worker_thread; if thread and thread.is_alive(): ...
StopRead(t) ==
  /\ proc[t].pc = "stop_read"
  /\ SetProc(t,
       IF worker_thread # "" /\ Alive(worker_thread)
         THEN [proc[t] EXCEPT !.pc = "join", !.thread = worker_thread]
         ELSE [proc[t] EXCEPT !.pc = "stop_clear"])
  /\ UNCHANGED <<simVars, lock, clock, engineVars, mirror_last, wire, reserved, histVars, budget>>

\* thread.join(timeout=0.5) returns: the thread ended or 0.5 s went by
Join(t) ==
  /\ proc[t].pc = "join"
  /\ SetProc(t, [proc[t] EXCEPT !.pc = "stop_clear"])
  /\ UNCHANGED <<simVars, lock, clock, engineVars, mirror_last, wire, reserved, histVars, budget>>

\* self._worker_thread = None
StopClear(t) ==
  /\ proc[t].pc = "stop_clear"
  /\ worker_thread' = ""
  /\ SetProc(t, [proc[t] EXCEPT
       !.pc = IF proc[t].op = "close" THEN "cl_lock" ELSE "sm_lock",
       !.thread = ""])
  /\ UNCHANGED <<simVars, lock, clock, settingVars, beatVars, worker_stop, events, portVars,
                 mirror_last, wire, reserved, histVars, budget>>

(* ------------------------------ set_mode ------------------------------ *)
\* set_mode is called; at most limit calls may ask for a task mode
CallSetModeUpTo(t, m, limit) ==
  /\ proc[t].pc = "idle"
  /\ Spend
  /\ m \in WorkerModes => reserved < limit
  /\ reserved' = IF m \in WorkerModes THEN reserved + 1 ELSE reserved
  /\ StopSet(t, [IdleProc EXCEPT !.op = "set_mode", !.a_mode = m])
  /\ UNCHANGED <<simVars, lock, clock, settingVars, beatVars, worker_thread, worker_stop,
                 portVars, mirror_last, wire, histVars>>

CallSetMode(t, m) == CallSetModeUpTo(t, m, MaxWorkers)

\* an entry action that forgets to send OFF
EntryStepNoOff(f) ==
  CASE f.a_mode = "on" -> [f EXCEPT !.pc = "sm_on"]
    [] f.a_mode \in WorkerModes -> [f EXCEPT !.pc = "start_ev"]
    [] OTHER -> Done(f)

\* the if/elif chain of set_mode: where the caller goes after the lock block
EntryStep(f) ==
  CASE f.a_mode = "off" -> [f EXCEPT !.pc = "send", !.line = OffLine]
    [] f.a_mode = "on" -> [f EXCEPT !.pc = "sm_on"]
    [] f.a_mode \in WorkerModes -> [f EXCEPT !.pc = "start_ev"]
    [] OTHER -> Done(f)

\* the lock block of set_mode and the choice of the entry action
SmLock(t) ==
  /\ proc[t].pc = "sm_lock"
  /\ Unlocked
  /\ mode' = proc[t].a_mode
  /\ beat_counter' = 0
  /\ cycle_index' = 0
  /\ last_beat_send_ts' = 0
  /\ SetProc(t, EntryStep(proc[t]))
  /\ beats_since' = 0
  /\ steps_since' = 0
  /\ UNCHANGED <<simVars, lock, clock, color, fade_out_ms, workerVars, portVars, mirror_last,
                 wire, reserved, beat_emits, off_after, budget>>

\* self._send_rgb(self._color, fade_in=0, fade_out=0): the unlocked read
SmOn(t) ==
  /\ proc[t].pc = "sm_on"
  /\ SetProc(t, [proc[t] EXCEPT !.pc = "send", !.line = RgbLine(color, 0, 0)])
  /\ UNCHANGED <<simVars, lock, clock, engineVars, mirror_last, wire, reserved, histVars, budget>>

\* _start_worker: self._worker_stop = threading.Event()
StartEv(t) ==
  /\ proc[t].pc = "start_ev"
  /\ events' = Append(events, FALSE)
  /\ worker_stop' = Len(events) + 1
  /\ SetProc(t, [proc[t] EXCEPT !.pc = "start_thr"])
  /\ UNCHANGED <<simVars, lock, clock, settingVars, beatVars, worker_thread, portVars,
                 mirror_last, wire, reserved, histVars, budget>>

NextWorker == WorkerNames[Cardinality({w \in Workers : proc[w].pc # "unborn"}) + 1]

\* _start_worker: the Thread is made with (mode, self._worker_stop) and started
StartThr(t) ==
  /\ proc[t].pc = "start_thr"
  /\ worker_thread' = NextWorker
  /\ proc' = [proc EXCEPT
       ![t] = Done(proc[t]),
       ![NextWorker] = [UnbornWorker EXCEPT !.pc = "w_check", !.op = "worker",
                                            !.l_mode = proc[t].a_mode,
                                            !.ev = worker_stop]]
  /\ UNCHANGED <<simVars, lock, clock, settingVars, beatVars, worker_stop, events, portVars,
                 mirror_last, wire, reserved, histVars, budget>>

(* ---------------------------- _worker_loop ---------------------------- *)
\* a loop that never looks at its stop event
LoopHeadIgnoresStop(set) == "w_iter"

\* while not stop_event.is_set(): the loop ends when the event is set
LoopHead(set) == IF set THEN "dead" ELSE "w_iter"

\* the test at the head of the loop
WCheck(w) ==
  /\ proc[w].pc = "w_check"
  /\ SetProc(w, [proc[w] EXCEPT !.pc = LoopHead(events[proc[w].ev])])
  /\ UNCHANGED <<simVars, lock, clock, engineVars, mirror_last, wire, reserved, histVars, budget>>

\* a task that sends the first palette colour in the slider and strobe modes
WorkerLinePalette(m) ==
  CASE m = "auto_rgb_fade" ->
         RgbLine(CycleColors[cycle_index + 1], CycleFadeInMs, CycleFadeOutMs)
    [] m = "slider_slow_fade" ->
         RgbLine(CycleColors[1], SliderFadeDurationMs, SliderFadeDurationMs)
    [] m = "strobe" -> RgbLine(CycleColors[1], StrobeFadeInMs, StrobeFadeOutMs)
    [] OTHER -> NoLine

\* what one iteration sends and how long it then sleeps
WorkerLine(m) ==
  CASE m = "auto_rgb_fade" ->
         RgbLine(CycleColors[cycle_index + 1], CycleFadeInMs, CycleFadeOutMs)
    [] m = "slider_slow_fade" ->
         RgbLine(color, SliderFadeDurationMs, SliderFadeDurationMs)
    [] m = "strobe" -> RgbLine(color, StrobeFadeInMs, StrobeFadeOutMs)
    [] OTHER -> NoLine

WorkerWait(m) ==
  CASE m = "auto_rgb_fade" -> CycleIntervalMs
    [] m = "slider_slow_fade" ->
         Max(SliderFadeIntervalMs, SliderFadeDurationMs + SliderFadeDurationMs)
    [] m = "strobe" -> StrobeIntervalMs
    [] OTHER -> 0

\* the loop body up to the call of _send_rgb; AUTO_RGB_FADE takes the next
\* palette colour, the other two read the static colour
WIter(w) ==
  /\ proc[w].pc = "w_iter"
  /\ Unlocked
  /\ cycle_index' = IF proc[w].l_mode = "auto_rgb_fade"
                      THEN (cycle_index + 1) % Len(CycleColors)
                      ELSE cycle_index
  /\ SetProc(w,
       IF proc[w].l_mode \in WorkerModes
         THEN [proc[w] EXCEPT !.pc = "send", !.err = "none", !.wrote = <<>>,
                              !.werrs = <<>>,
                              !.line = WorkerLine(proc[w].l_mode),
                              !.wait_for = WorkerWait(proc[w].l_mode)]
         ELSE [proc[w] EXCEPT !.pc = "dead"])
  /\ UNCHANGED <<simVars, lock, clock, settingVars, beat_counter, last_beat_send_ts,
                 workerVars, portVars, mirror_last, wire, reserved, histVars, budget>>

\* stop_event.wait(wait_for) returns: the event was set or the time went by
WWait(w) ==
  /\ proc[w].pc = "w_wait"
  /\ SetProc(w, [proc[w] EXCEPT !.pc = "w_check", !.wait_for = 0])
  /\ UNCHANGED <<simVars, lock, clock, engineVars, mirror_last, wire, reserved, histVars, budget>>

(* ----------------------------- handle_beat ---------------------------- *)
\* history: thread t's last call was a beat that passed the duplicate test
\* in a beat-driven mode and returned without an error
BeatJustAccepted(t) ==
  /\ proc[t].op = "handle_beat" /\ proc[t].accepted
  /\ proc[t].l_mode \in BeatModes /\ proc[t].err = "none"

\* now = time.time(): the beat arrives dt ticks after the last reading of
\* the clock (nothing else reads the clock, so time only moves here);
\* since_acc is the time since the accepted beat just before it, if any;
\* pre is the beat state the call finds (history, gone when the call returns)
CallHandleBeat(t, bpm, dt) ==
  /\ proc[t].pc = "idle"
  /\ Spend
  /\ clock + dt <= MaxClock
  /\ clock' = clock + dt
  /\ SetProc(t, [IdleProc EXCEPT !.op = "handle_beat", !.a_ms = bpm,
                                 !.now = clock + dt, !.pc = "hb_check",
                                 !.since_acc = IF BeatJustAccepted(t) THEN dt
                                                                      ELSE 0 - 1,
                                 !.pre = <<beat_counter, cycle_index,
                                           last_beat_send_ts>>])
  /\ UNCHANGED <<simVars, lock, engineVars, mirror_last, wire, reserved, histVars>>

\* the duplicate-beat test, made without the lock
HbCheck(t) ==
  /\ proc[t].pc = "hb_check"
  /\ SetProc(t,
       IF last_beat_send_ts # 0 /\ proc[t].now - last_beat_send_ts < DebounceTicks
         THEN Done(proc[t])
         ELSE [proc[t] EXCEPT !.pc = "hb_read", !.accepted = TRUE])
  /\ UNCHANGED <<simVars, lock, clock, engineVars, mirror_last, wire, reserved, histVars, budget>>

\* a FADE_SYNC command whose decay follows the tempo hint
FadeSyncLineBpm(f) == RgbLine(f.l_color, 0, f.a_ms)

\* FADE_SYNC: self._send_rgb(color, fade_in=0, fade_out=fade_out_ms)
FadeSyncLine(f) == RgbLine(f.l_color, 0, f.l_fade)

\* a handle_beat that pulses in ON as it does in FADE_SYNC
HbBranchOnPulses(f) ==
  CASE f.l_mode \in {"fade_sync", "on"} ->
         [f EXCEPT !.pc = "send", !.line = FadeSyncLine(f)]
    [] f.l_mode = "beat_rgb_step" -> [f EXCEPT !.pc = "hb_next"]
    [] f.l_mode = "fade_sync_every_4" -> [f EXCEPT !.pc = "hb_count"]
    [] OTHER -> Done(f)

\* the three `if mode == ...` of handle_beat; any other mode falls through
\* to the end of the method
HbBranch(f) ==
  CASE f.l_mode = "fade_sync" ->
         [f EXCEPT !.pc = "send", !.line = FadeSyncLine(f)]
    [] f.l_mode = "beat_rgb_step" -> [f EXCEPT !.pc = "hb_next"]
    [] f.l_mode = "fade_sync_every_4" -> [f EXCEPT !.pc = "hb_count"]
    [] OTHER -> Done(f)

\* the first lock block of handle_beat and the branch on the mode read there
HbRead(t) ==
  /\ proc[t].pc = "hb_read"
  /\ Unlocked
  /\ LET f == [proc[t] EXCEPT !.l_mode = mode, !.l_color = color,
                              !.l_fade = Max(0, fade_out_ms)]
     IN SetProc(t, HbBranch(f))
  /\ beats_since' = IF mode = "fade_sync_every_4"
                      THEN (beats_since + 1) % (2 * CounterModulus)
                      ELSE beats_since
  /\ steps_since' = IF mode = "beat_rgb_step"
                      THEN (steps_since + 1) % Len(CycleColors)
                      ELSE steps_since
  /\ UNCHANGED <<simVars, lock, clock, engineVars, mirror_last, wire, reserved, beat_emits,
                 off_after, budget>>

\* BEAT_RGB_STEP: color = self._next_cycle_color()
HbNext(t) ==
  /\ proc[t].pc = "hb_next"
  /\ Unlocked
  /\ cycle_index' = (cycle_index + 1) % Len(CycleColors)
  /\ SetProc(t, [proc[t] EXCEPT !.pc = "send",
                   !.line = RgbLine(CycleColors[cycle_index + 1], 0, proc[t].l_fade)])
  /\ UNCHANGED <<simVars, lock, clock, settingVars, beat_counter, last_beat_send_ts,
                 workerVars, portVars, mirror_last, wire, reserved, histVars, budget>>

\* a counter that wraps at 4
BeatIndexMod4(c) == (c + 1) % 4

\* (self._beat_counter + 1) % 8
BeatIndex(c) == (c + 1) % CounterModulus

\* FADE_SYNC_EVERY_4: the counter's lock block and the test of beat_index
HbCount(t) ==
  /\ proc[t].pc = "hb_count"
  /\ Unlocked
  /\ beat_counter' = BeatIndex(beat_counter)
  /\ SetProc(t,
       IF beat_counter' # 0
         THEN Done(proc[t])
         ELSE [proc[t] EXCEPT !.pc = "send",
                 !.line = RgbLine(proc[t].l_color, 0, proc[t].l_fade)])
  /\ UNCHANGED <<simVars, lock, clock, settingVars, cycle_index, last_beat_send_ts,
                 workerVars, portVars, mirror_last, wire, reserved, histVars, budget>>

\* self._last_beat_send_ts = now, after the send has returned
HbStamp(t) ==
  /\ proc[t].pc = "hb_stamp"
  /\ last_beat_send_ts' = proc[t].now
  /\ SetProc(t, Done(proc[t]))
  /\ UNCHANGED <<simVars, lock, clock, settingVars, beat_counter, cycle_index, workerVars,
                 portVars, mirror_last, wire, reserved, histVars, budget>>

(* ----------------------- set_color, set_decay_ms ---------------------- *)
\* a set_color that sends in every mode
ColorEmitsAlways(m) == TRUE

\* if mode == LightMode.ON:
ColorEmits(m) == m = "on"

SetColor(t, rgb) ==
  /\ proc[t].pc = "idle"
  /\ Unlocked
  /\ Spend
  /\ color' = ClampRgb(rgb)
  /\ LET f == [IdleProc EXCEPT !.op = "set_color", !.a_rgb = rgb, !.l_mode = mode]
     IN SetProc(t,
          IF ColorEmits(mode)
            THEN [f EXCEPT !.pc = "send", !.line = RgbLine(ClampRgb(rgb), 0, 0)]
            ELSE f)
  /\ UNCHANGED <<simVars, lock, clock, mode, fade_out_ms, beatVars, workerVars, portVars,
                 mirror_last, wire, reserved, histVars>>

SetDecayMs(t, ms) ==
  /\ proc[t].pc = "idle"
  /\ Unlocked
  /\ Spend
  /\ fade_out_ms' = ClampDecay(ms)
  /\ SetProc(t, [IdleProc EXCEPT !.op = "set_decay_ms", !.a_ms = ms])
  /\ UNCHANGED <<simVars, lock, clock, mode, color, beatVars, workerVars, portVars,
                 mirror_last, wire, reserved, histVars>>

(* ------------------------- set_com_port, close ------------------------ *)
\* the lock block of set_com_port
SetComPort(t, name) ==
  /\ proc[t].pc = "idle"
  /\ Unlocked
  /\ Spend
  /\ LET f == [IdleProc EXCEPT !.op = "set_com_port", !.a_port = name]
     IN IF name = com_port /\ serial # 0 /\ conns[serial].open
          THEN /\ SetProc(t, f)
               /\ UNCHANGED <<com_port, serial>>
          ELSE /\ com_port' = name
               /\ serial' = 0
               /\ SetProc(t, IF serial # 0
                               THEN [f EXCEPT !.pc = "scp_close", !.ser = serial]
                               ELSE f)
  /\ UNCHANGED <<simVars, lock, clock, settingVars, beatVars, workerVars, conns, mirror_last,
                 wire, reserved, histVars>>

\* a close that leaves the connection open
CloseOldNot(cs, i) == cs

\* old_serial.close() / ser.close()
CloseOld(cs, i) == [cs EXCEPT ![i].open = FALSE]

\* old_serial.close(), errors ignored
ScpClose(t) ==
  /\ proc[t].pc = "scp_close"
  /\ conns' = CloseOld(conns, proc[t].ser)
  /\ SetProc(t, Done(proc[t]))
  /\ UNCHANGED <<simVars, lock, clock, settingVars, beatVars, workerVars, com_port, serial,
                 mirror_last, wire, reserved, histVars, budget>>

CallClose(t) ==
  /\ proc[t].pc = "idle"
  /\ Spend
  /\ StopSet(t, [IdleProc EXCEPT !.op = "close"])
  /\ UNCHANGED <<simVars, lock, clock, settingVars, beatVars, worker_thread, worker_stop,
                 portVars, mirror_last, wire, reserved, histVars>>

\* the lock block of _close_serial
ClLock(t) ==
  /\ proc[t].pc = "cl_lock"
  /\ Unlocked
  /\ serial' = 0
  /\ SetProc(t, IF serial # 0 /\ conns[serial].open
                  THEN [proc[t] EXCEPT !.pc = "cl_close", !.ser = serial]
                  ELSE Done(proc[t]))
  /\ UNCHANGED <<simVars, lock, clock, settingVars, beatVars, workerVars, com_port, conns,
                 mirror_last, wire, reserved, histVars, budget>>

\* ser.close() of _close_serial, errors ignored
ClClose(t) ==
  /\ proc[t].pc = "cl_close"
  /\ conns' = CloseOld(conns, proc[t].ser)
  /\ SetProc(t, Done(proc[t]))
  /\ UNCHANGED <<simVars, lock, clock, settingVars, beatVars, workerVars, com_port, serial,
                 mirror_last, wire, reserved, histVars, budget>>

(* --------------------------- the fade mirror -------------------------- *)
\* advance() returning None
NoVal == 0 - 1

\* a reset that leaves the channel in its "out" phase
FadeResetStaysOut == [NewFade EXCEPT !.phase = "out"]

\* _ChannelFadeSimulator.reset
FadeReset == NewFade

\* a start that leaves the phase clock where it was
FadeStartKeepsClock(target, fade_in, fade_out, now_ms) ==
  [target |-> ClampByte(target), fade_in_ms |-> Max(0, fade_in),
   fade_out_ms |-> Max(0, fade_out), phase_start_ms |-> 0,
   phase |-> IF Max(0, fade_in) = 0 THEN "out" ELSE "in"]

\* _ChannelFadeSimulator.start
FadeStart(target, fade_in, fade_out, now_ms) ==
  [target |-> ClampByte(target), fade_in_ms |-> Max(0, fade_in),
   fade_out_ms |-> Max(0, fade_out), phase_start_ms |-> now_ms,
   phase |-> IF Max(0, fade_in) = 0 THEN "out" ELSE "in"]

\* an "in" phase always followed by an "out" phase
EnterOutAlways(f, now_ms) == [f EXCEPT !.phase_start_ms = now_ms, !.phase = "out"]

\* the end of the "in" phase: the "out" phase is timed from this call
EnterOut(f, now_ms) ==
  [f EXCEPT !.phase_start_ms = now_ms,
            !.phase = IF f.fade_out_ms > 0 THEN "out" ELSE "idle"]

\* _ChannelFadeSimulator.advance: the object afterwards and the value returned;
\* int(target * progress) with progress clamped to [0, 1]
FadeAdvance(f, now_ms) ==
  LET gone == Max(0, now_ms - f.phase_start_ms)
  IN CASE f.phase = "in" ->
            IF f.fade_in_ms = 0 \/ gone >= f.fade_in_ms
              THEN [fade |-> EnterOut(f, now_ms), val |-> f.target]
              ELSE [fade |-> f, val |-> (f.target * gone) \div f.fade_in_ms]
       [] f.phase = "out" ->
            IF f.fade_out_ms = 0
              THEN [fade |-> [f EXCEPT !.phase = "idle"], val |-> f.target]
            ELSE IF gone >= f.fade_out_ms
              THEN [fade |-> FadeReset, val |-> 0]
            ELSE [fade |-> f,
                  val |-> (f.target * (f.fade_out_ms - gone)) \div f.fade_out_ms]
       [] OTHER -> [fade |-> f, val |-> NoVal]

\* LampStateMirror._advance_locked
AdvanceLocked(fs, cur, now_ms) ==
  LET r == <<FadeAdvance(fs[1], now_ms), FadeAdvance(fs[2], now_ms),
             FadeAdvance(fs[3], now_ms)>>
      Level(i) == IF r[i].val # NoVal /\ r[i].val # cur[i] THEN r[i].val ELSE cur[i]
  IN [fades |-> <<r[1].fade, r[2].fade, r[3].fade>>,
      current |-> <<Level(1), Level(2), Level(3)>>]

\* an immediate set that also writes the zero channels
ImmediateLevelAll(cur, v) == v

\* an immediate set that adds the value to the level
ImmediateLevelAdds(cur, v) == IF v > 0 THEN Min(255, cur + v) ELSE cur

\* handle_rgb, both fades zero: if r > 0: self._current[0] = r
ImmediateLevel(cur, v) == IF v > 0 THEN v ELSE cur

\* a command that restarts all three channels
StartsChannelAlways(v) == TRUE

\* handle_rgb: if r > 0: self._fades[0].start(...)
StartsChannel(v) == v > 0

\* the lock block of handle_rgb on the fades fs and the levels cur: c, a, b
\* are the clamped arguments, now_ms the reading of the clock
RgbApplied(fs, cur, c, a, b, now_ms) ==
  LET Started(i) == IF StartsChannel(c[i]) THEN FadeStart(c[i], a, b, now_ms) ELSE fs[i]
      started == <<Started(1), Started(2), Started(3)>>
  IN IF a = 0 /\ b = 0
       THEN [fades |-> <<FadeReset, FadeReset, FadeReset>>,
             current |-> <<ImmediateLevel(cur[1], c[1]),
                           ImmediateLevel(cur[2], c[2]),
                           ImmediateLevel(cur[3], c[3])>>]
       ELSE AdvanceLocked(started, cur, now_ms)

\* LampStateMirror.handle_rgb on the mirror the window shows
HandleRgbOn(rgb, fade_in, fade_out) ==
  LET c == ClampRgb(rgb)
      a == Max(0, fade_in)
      b == Max(0, fade_out)
      r == RgbApplied(fades, current, c, a, b, mono)
      cmd == [rgb |-> c, fade_in_ms |-> a, fade_out_ms |-> b, state |-> "rgb"]
  IN /\ fades' = r.fades
     /\ current' = r.current
     /\ last_command' = cmd
     /\ sim_op' = "rgb"
     /\ sim_cmd' = cmd @@ [at |-> mono]
     /\ sim_rep' = IF sim_rep.n > 0 /\ sim_cmd = cmd @@ [at |-> mono]
                      THEN [sim_rep EXCEPT !.n = 2]
                      ELSE [n |-> 1, once |-> <<fades', current'>>]
     /\ UNCHANGED <<controllerVars, mono>>

HandleRgb(rgb, fade_in, fade_out) ==
  HandleRgbOn(rgb, fade_in, fade_out) /\ UNCHANGED twin

\* the same command reaches both mirrors at the same reading of the clock
TwinRgb(rgb, fade_in, fade_out) ==
  /\ HandleRgbOn(rgb, fade_in, fade_out)
  /\ LET r == RgbApplied(twin.fades, twin.current, ClampRgb(rgb), Max(0, fade_in),
                         Max(0, fade_out), mono)
     IN twin' = [twin EXCEPT !.fades = r.fades, !.current = r.current]

\* a handle_off that leaves the levels as they are
OffLevelsKept == current

\* handle_off: self._current = [0, 0, 0]
OffLevels == <<0, 0, 0>>

\* LampStateMirror.handle_off
HandleOff ==
  /\ fades' = <<FadeReset, FadeReset, FadeReset>>
  /\ current' = OffLevels
  /\ last_command' = NoCommand
  /\ sim_op' = "off"
  /\ sim_cmd' = NoCommand @@ [at |-> mono]
  /\ sim_rep' = [n |-> 0, once |-> <<>>]
  /\ UNCHANGED <<controllerVars, mono, twin>>

\* LampStateMirror.tick
Tick ==
  /\ LET r == AdvanceLocked(fades, current, mono)
     IN /\ fades' = r.fades
        /\ current' = r.current
  /\ sim_op' = "tick"
  /\ sim_rep' = [n |-> 0, once |-> <<>>]
  /\ UNCHANGED <<controllerVars, mono, last_command, sim_cmd, twin>>

\* tick() of the second mirror
TickTwin ==
  /\ LET r == AdvanceLocked(twin.fades, twin.current, mono)
     IN twin' = [fades |-> r.fades, current |-> r.current, polled |-> mono]
  /\ UNCHANGED <<controllerVars, mono, fades, current, last_command, sim_op, sim_cmd,
                 sim_rep>>

\* time.monotonic() moves on between two calls
Elapse(dt) ==
  /\ mono + dt <= MaxSimTime
  /\ mono' = mono + dt
  /\ sim_op' = "elapse"
  /\ sim_rep' = [n |-> 0, once |-> <<>>]
  /\ UNCHANGED <<controllerVars, fades, current, last_command, sim_cmd, twin>>

(* --------------------------- specifications --------------------------- *)
\* Spec: one foreground thread issues up to MaxCalls operations over all
\* eight modes while the background tasks run; the device answers
Next ==
  \/ \E m \in Modes : CallSetMode("ui", m)
  \/ \E dt \in Delays : CallHandleBeat("ui", 0, dt)
  \/ \E rgb \in RgbInputs : SetColor("ui", rgb)
  \/ \E ms \in DecayInputs : SetDecayMs("ui", ms)
  \/ \E name \in Ports : com_port # name /\ SetComPort("ui", name)
  \/ StopRead("ui") \/ Join("ui") \/ StopClear("ui")
  \/ SmLock("ui") \/ SmOn("ui") \/ StartEv("ui") \/ StartThr("ui")
  \/ HbCheck("ui") \/ HbRead("ui") \/ HbNext("ui") \/ HbCount("ui") \/ HbStamp("ui")
  \/ \E w \in Workers : WCheck(w) \/ WIter(w) \/ WWait(w)
  \/ \E p \in {"ui"} \cup Workers : SendEnter(p) \/ OpenOk(p) \/ WriteOk(p)

Spec == Init /\ [][Next]_vars

\* SpecBeat: one foreground thread and no background task: any number of
\* operations over the five modes that start no task; the device answers
InitBeat == InitController /\ InitMirror /\ budget = 0 - 1

NextBeat ==
  \/ \E m \in Modes \ WorkerModes : CallSetMode("ui", m)
  \/ \E bpm \in BpmInputs, dt \in Delays : CallHandleBeat("ui", bpm, dt)
  \/ \E rgb \in RgbInputs : SetColor("ui", rgb)
  \/ \E ms \in DecayInputs : SetDecayMs("ui", ms)
  \/ \E name \in Ports : com_port # name /\ SetComPort("ui", name)
  \/ StopRead("ui") \/ StopClear("ui") \/ SmLock("ui") \/ SmOn("ui")
  \/ HbCheck("ui") \/ HbRead("ui") \/ HbNext("ui") \/ HbCount("ui") \/ HbStamp("ui")
  \/ SendEnter("ui") \/ OpenOk("ui") \/ WriteOk("ui")

SpecBeat == InitBeat /\ [][NextBeat]_vars

\* SpecDev: one foreground thread issues up to MaxCalls operations, close and
\* port changes among them; the device and the mirror may fail at any call
NextDev ==
  \/ \E m \in DevModes : CallSetMode("ui", m)
  \/ CallHandleBeat("ui", 0, 0)
  \/ \E rgb \in RgbInputs : SetColor("ui", rgb)
  \/ \E name \in DevPorts : SetComPort("ui", name)
  \/ CallClose("ui")
  \/ ScpClose("ui") \/ ClLock("ui") \/ ClClose("ui")
  \/ StopRead("ui") \/ Join("ui") \/ StopClear("ui")
  \/ SmLock("ui") \/ SmOn("ui") \/ StartEv("ui") \/ StartThr("ui")
  \/ HbCheck("ui") \/ HbRead("ui") \/ HbStamp("ui")
  \/ \E w \in Workers : WCheck(w) \/ WIter(w) \/ WWait(w)
  \/ \E p \in {"ui"} \cup Workers : SendEnter(p) \/ SinkRaises(p)
  \/ \E p \in {"ui"} \cup Workers : OpenOk(p) \/ OpenFail(p)
  \/ \E p \in {"ui"} \cup Workers : WriteOk(p) \/ WriteTimeout(p) \/ WriteFail(p)
  \/ \E p \in {"ui"} \cup Workers : RetryOk(p) \/ RetryFail(p)

SpecDev == Init /\ [][NextDev]_vars

\* one step of task w: the loop head, the loop body, the end of the wait, and
\* the return (or the exception) of the mirror, of serial.Serial(...) and of
\* ser.write(...)
WorkerStep(w) ==
  \/ WCheck(w) \/ WIter(w) \/ WWait(w)
  \/ SendEnter(w) \/ SinkRaises(w)
  \/ OpenOk(w) \/ OpenFail(w)
  \/ WriteOk(w) \/ WriteTimeout(w) \/ WriteFail(w)
  \/ RetryOk(w) \/ RetryFail(w)

\* SpecDevFair: SpecDev with tasks that are scheduled: a task that can take a
\* step takes one (the thread runs, every serial call returns or raises
\* within its timeout, stop_event.wait returns when the time is over or the
\* event is set)
SpecDevFair == SpecDev /\ \A w \in Workers : WF_vars(WorkerStep(w))

\* SpecRace: the callers "ui" and "midi" issue up to MaxCalls operations
\* between them, each from its own thread: set_mode and close from both,
\* beats from the listener, the port from the window
RaceModes == {"off", "fade_sync", "strobe"}

NextRace ==
  \/ \E t \in Callers, m \in RaceModes : CallSetModeUpTo(t, m, RaceWorkers)
  \/ CallHandleBeat("midi", 0, 0)
  \/ \E name \in Ports : com_port # name /\ SetComPort("ui", name)
  \/ \E t \in Callers : CallClose(t)
  \/ \E t \in Callers : StopRead(t) \/ Join(t) \/ StopClear(t)
  \/ \E t \in Callers : SmLock(t) \/ StartEv(t) \/ StartThr(t)
  \/ \E t \in Callers : ClLock(t) \/ ClClose(t)
  \/ HbCheck("midi") \/ HbRead("midi") \/ HbStamp("midi")
  \/ \E w \in Workers : WCheck(w) \/ WIter(w) \/ WWait(w)
  \/ \E p \in Procs : SendEnter(p) \/ OpenOk(p) \/ WriteOk(p) \/ WriteFail(p)

SpecRace == Init /\ [][NextRace]_vars

\* SpecBeatRace: the window's thread "ui" sets the port and changes between
\* OFF and the beat-driven modes while the listener thread "midi" delivers
\* beats; no background task; MaxCalls + 1 calls between the two threads
BeatRaceModes == {"off", "fade_sync", "beat_rgb_step"}

InitBeatRace == InitController /\ InitMirror /\ budget = MaxCalls + 1

NextBeatRace ==
  \/ \E m \in BeatRaceModes : CallSetMode("ui", m)
  \/ CallHandleBeat("midi", 0, 0)
  \/ \E name \in Ports : com_port # name /\ SetComPort("ui", name)
  \/ StopRead("ui") \/ StopClear("ui") \/ SmLock("ui")
  \/ HbCheck("midi") \/ HbRead("midi") \/ HbNext("midi") \/ HbStamp("midi")
  \/ \E p \in Callers : SendEnter(p) \/ OpenOk(p) \/ WriteOk(p)

SpecBeatRace == InitBeatRace /\ [][NextBeatRace]_vars

\* SpecSim: the mirror alone, driven by commands, polls and the passing of time
NextSim ==
  \/ \E rgb \in SimColors, fade_in \in SimFades, fade_out \in SimFades :
       HandleRgb(rgb, fade_in, fade_out)
  \/ HandleOff
  \/ Tick
  \/ \E dt \in SimSteps : Elapse(dt)

SpecSim == Init /\ [][NextSim]_vars

\* SpecTwin: two mirrors get the same fading command at the same times; each
\* is polled whenever its own poller happens to run
TwinFades == {2}

NextTwin ==
  \/ \E fade_in \in TwinFades, fade_out \in TwinFades :
       TwinRgb(<<0, 100, 0>>, fade_in, fade_out)
  \/ Tick
  \/ TickTwin
  \/ \E dt \in SimSteps : Elapse(dt)

SpecTwin == Init /\ [][NextTwin]_vars

(* ------------------------------ properties ---------------------------- *)
InRange(l) ==
  \/ l = NoLine
  \/ l = OffLine
  \/ /\ Len(l) = 6
     /\ l[1] = "RGB"
     /\ \A i \in 2..4 : l[i] \in 0..255
     /\ \A i \in 5..6 : l[i] \in 0..10000

Ui == proc["ui"]

\* C1: whatever arguments set_color, set_decay_ms, set_mode and handle_beat
\* were given, every RGB line written to the wire, and every line a thread
\* has handed to the transport or is about to write, has r, g, b in [0,255]
\* and both fades in [0,10000]; the stored colour and decay are in the same
\* ranges.
C1_WireInRange ==
  /\ InRange(wire.line)
  /\ \A p \in Procs :
       /\ InRange(proc[p].line)
       /\ \A i \in 1..Len(proc[p].sent) : InRange(proc[p].sent[i])
       /\ \A i \in 1..Len(proc[p].wrote) : InRange(proc[p].wrote[i])
  /\ \A i \in 1..3 : color[i] \in 0..255
  /\ fade_out_ms \in 0..10000

\* the out-of-range colour <<-20, 300, 128>> was stored and has reached the wire
C1_Witness ==
  /\ Ui.pc = "idle"
  /\ wire.line # NoLine
  /\ wire.line[1] = "RGB"
  /\ <<wire.line[2], wire.line[3], wire.line[4]>> = <<0, 255, 128>>

\* C2: two handle_beat calls invoked less than 200 ms (2 ticks) apart write at
\* most one command between them, whatever set_mode, set_color and
\* set_decay_ms calls run between them: the invocation times of two
\* consecutive handle_beat calls that both wrote a command are at least 2
\* ticks apart.
C2_DebounceHolds ==
  Len(beat_emits) = 2 => beat_emits[2] - beat_emits[1] >= 2

C4_StepSequence ==
  (Ui.pc = "idle" /\ Ui.op = "handle_beat" /\ Ui.accepted
     /\ Ui.l_mode = "beat_rgb_step")
  => LET c == CycleColors[((steps_since + 2) % 3) + 1]
     IN Ui.sent = << <<"RGB", c[1], c[2], c[3], 0, fade_out_ms>> >>

\* C5: once set_mode(OFF) has written OFF, no AUTO_RGB_FADE task that this
\* call (or an earlier one) cancelled writes a line: the last line on the
\* wire is never one written by such a task after the OFF.
C5_NoTaskLineAfterOff ==
  wire.by \notin off_after

\* C6: set_color stores the clamped colour in every mode; when the mode is ON
\* it hands exactly one command (clamped colour, fades 0/0) to the transport,
\* which writes it unless the transport fails; in the seven other modes it
\* hands over and writes nothing.
C6_SetColor ==
  (Ui.pc = "idle" /\ Ui.op = "set_color")
  => /\ color = <<ClampByte(Ui.a_rgb[1]), ClampByte(Ui.a_rgb[2]), ClampByte(Ui.a_rgb[3])>>
     /\ \A i \in 1..3 : color[i] \in 0..255
     /\ Ui.l_mode = mode
     /\ Ui.sent = IF mode = "on"
                    THEN << <<"RGB", color[1], color[2], color[3], 0, 0>> >>
                    ELSE <<>>
     /\ Ui.wrote = IF Ui.err = "none" THEN Ui.sent ELSE <<>>
     /\ Ui.err # "none" => mode = "on"

\* set_color(<<-20, 300, 128>>) in mode ON has written RGB 0 255 128 0 0
C6_Witness ==
  /\ Ui.pc = "idle" /\ Ui.op = "set_color" /\ mode = "on"
  /\ Ui.a_rgb = <<-20, 300, 128>>
  /\ Ui.wrote = << <<"RGB", 0, 255, 128, 0, 0>> >>

\* C7: set_mode(m) sets the mode and resets beat_counter, cycle_index and
\* last_beat_send_ts in its lock block, whatever the mode was before, and
\* then performs exactly the entry action of m: by the time it returns the
\* caller has written OFF for OFF, one RGB line with the static colour and
\* fades 0/0 for ON, and nothing for the six other modes; for AUTO_RGB_FADE,
\* SLIDER_SLOW_FADE and STROBE the return is the start of a new task for m.
C7_Step ==
  LET f == proc["ui"]
      g == proc'["ui"]
  IN /\ (f.pc = "sm_lock" /\ g.pc # "sm_lock")
          => /\ mode' = f.a_mode
             /\ beat_counter' = 0
             /\ cycle_index' = 0
             /\ last_beat_send_ts' = 0
             /\ g.wrote = <<>>
     /\ (f.op = "set_mode" /\ f.pc # "idle" /\ g.pc = "idle")
          => /\ mode' = f.a_mode
             /\ g.sent = CASE f.a_mode = "off" -> << <<"OFF">> >>
                           [] f.a_mode = "on" ->
                                << <<"RGB", color[1], color[2], color[3], 0, 0>> >>
                           [] OTHER -> <<>>
             /\ g.wrote = IF g.err = "none" THEN g.sent ELSE <<>>
             /\ IF f.a_mode \in WorkerModes
                  THEN /\ worker_thread' \in Workers
                       /\ proc[worker_thread'].pc = "unborn"
                       /\ proc'[worker_thread'].pc = "w_check"
                       /\ proc'[worker_thread'].l_mode = f.a_mode
                       /\ ~ events'[proc'[worker_thread'].ev]
                  ELSE \A w \in Workers : proc'[w].pc = "unborn" <=> proc[w].pc = "unborn"

C7_SetModeEntry == [][C7_Step]_vars

\* set_mode(ON) has returned after writing the stored colour with fades 0/0
C7_Witness ==
  /\ Ui.pc = "idle" /\ Ui.op = "set_mode" /\ Ui.a_mode = "on"
  /\ Ui.wrote = << <<"RGB", 0, 255, 128, 0, 0>> >>

\* C8: in FADE_SYNC every accepted beat hands exactly the command {static
\* colour, fade-in 0, fade-out decay} to the transport, whatever bpm_hint was
\* given, and that command is written unless the transport fails.
C8_FadeSyncPayload ==
  (Ui.pc = "idle" /\ Ui.op = "handle_beat" /\ Ui.accepted
     /\ Ui.l_mode = "fade_sync")
  => /\ Ui.sent = << <<"RGB", color[1], color[2], color[3], 0, fade_out_ms>> >>
     /\ Ui.wrote = IF Ui.err = "none" THEN Ui.sent ELSE <<>>

\* a beat with bpm_hint 120 in FADE_SYNC has written the static colour with
\* the stored decay of 10000 ms
C8_Witness ==
  /\ Ui.pc = "idle" /\ Ui.op = "handle_beat" /\ Ui.accepted
  /\ Ui.l_mode = "fade_sync" /\ Ui.a_ms = 120
  /\ Ui.wrote = << <<"RGB", 0, 255, 128, 0, 10000>> >>

\* C9: a command with both fades 0 sets the level of every channel whose
\* target is above 0 to the target, leaves the level of every channel whose
\* target is 0 as it was, and leaves all three channels idle; while all
\* three are idle a poll changes no level.
C9_Step ==
  /\ (sim_op' = "rgb" /\ sim_cmd'.fade_in_ms = 0 /\ sim_cmd'.fade_out_ms = 0)
       => /\ \A i \in 1..3 :
               current'[i] = IF sim_cmd'.rgb[i] > 0 THEN sim_cmd'.rgb[i] ELSE current[i]
          /\ \A i \in 1..3 : fades'[i].phase = "idle"
  /\ (sim_op' = "tick" /\ \A i \in 1..3 : fades[i].phase = "idle")
       => /\ current' = current
          /\ \A i \in 1..3 : fades'[i].phase = "idle"

C9_ImmediateSet == [][C9_Step]_vars

\* RGB 0 100 0 0 0 was applied to the levels (50, 50, 50)
C9_Witness ==
  /\ sim_op = "rgb"
  /\ sim_cmd.rgb = <<0, 100, 0>> /\ sim_cmd.fade_in_ms = 0 /\ sim_cmd.fade_out_ms = 0
  /\ current = <<50, 100, 50>>
  /\ \A i \in 1..3 : fades[i].phase = "idle"

\* C10: after a command given at t0 with target T > 0, fade-in F > 0 and
\* fade-out D > 0 and no command since, a poll at t0+F shows T, a poll
\* between t0+F and t0+F+D shows less than T, and a poll at t0+F+D shows 0,
\* whenever the earlier polls were made.
C10_RoundTrip ==
  (sim_op = "tick" /\ sim_cmd.state = "rgb"
     /\ sim_cmd.fade_in_ms > 0 /\ sim_cmd.fade_out_ms > 0)
  => \A i \in 1..3 :
       sim_cmd.rgb[i] > 0 =>
         LET up == sim_cmd.at + sim_cmd.fade_in_ms
             down == up + sim_cmd.fade_out_ms
         IN /\ mono = up => current[i] = sim_cmd.rgb[i]
            /\ (mono > up /\ mono < down) => current[i] < sim_cmd.rgb[i]
            /\ mono = down => current[i] = 0

\* C11: a command given to the mirror twice (or more often) in a row at one
\* reading of the clock leaves the fades (phase, target, durations, phase
\* start) and the three levels as its first application left them, whatever
\* the mirror's state was before and whether the command sets or fades.
C11_SameCommandTwice ==
  sim_rep.n = 2 => <<fades, current>> = sim_rep.once

\* the fading command RGB 0 100 0 2 4 was given twice at time 3 while the
\* fade of an earlier command was past its fade-in on the red channel
C11_Witness ==
  /\ sim_rep.n = 2
  /\ sim_cmd.rgb = <<0, 100, 0>> /\ sim_cmd.fade_in_ms = 2 /\ sim_cmd.fade_out_ms = 4
  /\ sim_cmd.at = 3
  /\ fades[1].phase = "out" /\ fades[2].phase = "in"

\* C19: from handle_off until the next RGB command all three channels are idle
\* and the levels are (0, 0, 0), at the call itself and after every later poll,
\* whatever fades were in progress before.
C19_OffHolds ==
  sim_cmd.state = "off"
  => /\ current = <<0, 0, 0>>
     /\ \A i \in 1..3 : fades[i].phase = "idle"

\* a poll made some time after handle_off, with no command since
C19_Witness ==
  /\ sim_cmd.state = "off"
  /\ sim_op = "tick"
  /\ mono > sim_cmd.at
  /\ current = <<0, 0, 0>>

C13_NotConfigured ==
  com_port = ""
  => /\ conns = <<>> /\ serial = 0
     /\ wire.line = NoLine
     /\ \A p \in Procs :
          /\ proc[p].pc \notin {"open", "write", "retry"}
          /\ proc[p].wrote = <<>>
          /\ proc[p].err \in {"none", "not_configured"}
     /\ (Ui.pc = "idle" /\ Ui.sent # <<>>) => Ui.err = "not_configured"
     /\ (Ui.pc = "idle" /\ Ui.op = "set_mode" /\ Ui.a_mode \in {"off", "on"})
          => Ui.err = "not_configured"
     /\ (Ui.pc = "idle" /\ Ui.op = "set_color" /\ mode = "on")
          => Ui.err = "not_configured"
     /\ (Ui.pc = "idle" /\ Ui.op = "handle_beat" /\ Ui.accepted /\ Ui.l_mode = "fade_sync")
          => Ui.err = "not_configured"

\* an accepted beat in FADE_SYNC has failed for want of a port
C13_Witness ==
  /\ com_port = ""
  /\ Ui.pc = "idle" /\ Ui.op = "handle_beat" /\ Ui.accepted /\ Ui.l_mode = "fade_sync"
  /\ Ui.err = "not_configured"

\* C14: every command handed to _send_rgb / _send_off is given to the mirror
\* exactly once, and an exception of the mirror is no error of the call: the
\* thread goes on to the transport, and a foreground call during which the
\* mirror raised and the device worked has written its command.
C14_SinkNeverStops ==
  /\ \A p \in Procs :
       /\ proc[p].sunk = proc[p].sent
       /\ proc[p].err # "sink"
  /\ (Ui.pc = "idle" /\ Ui.sink_raised)
       => /\ Ui.sent # <<>>
          /\ Ui.err = "none" => Ui.wrote = Ui.sent
          /\ Ui.err # "none" => (Ui.err = "not_configured" <=> com_port = "")

\* the mirror raised during set_mode(OFF) and OFF was written all the same
C14_Witness ==
  /\ Ui.pc = "idle" /\ Ui.op = "set_mode" /\ Ui.a_mode = "off"
  /\ Ui.sink_raised
  /\ Ui.wrote = << <<"OFF">> >>
  /\ wire.line = <<"OFF">>

\* C17: once set_com_port(name) has returned, the configured port is name and
\* the controller holds either no connection or an open connection on that
\* port (the one it kept because name was already open, or one opened by a
\* later send).
C17_PortChange ==
  (Ui.pc = "idle" /\ Ui.op = "set_com_port")
  => /\ com_port = Ui.a_port
     /\ serial = 0 \/ (conns[serial].open /\ conns[serial].port = Ui.a_port)

\* C18: once close() has returned, and until the next call, the controller
\* holds no connection and no serial connection is open (so no line can be
\* written), also when the task outlived the join.
C18_ClosedStaysClosed ==
  (Ui.pc = "idle" /\ Ui.op = "close")
  => /\ serial = 0
     /\ \A i \in 1..Len(conns) : ~ conns[i].open

\* C20: a task whose send fails goes to stop_event.wait with the fallback
\* interval of 1 s; however the wait ends it goes back to the loop head, and
\* from the loop head it ends if its stop event is set and runs the next
\* iteration otherwise; a task never ends in any other way.
C20_Step ==
  \A w \in Workers :
    LET f == proc[w]
        g == proc'[w]
    IN /\ (f.err = "none" /\ g.err # "none")
            => /\ f.pc \in {"send", "open", "write", "retry"}
               /\ g.pc = "w_wait" /\ g.wait_for = 1000
               /\ g.ev = f.ev /\ g.l_mode = f.l_mode
       /\ (f.pc = "w_wait" /\ g.pc # "w_wait") => g.pc = "w_check"
       /\ (f.pc = "w_check" /\ g.pc # "w_check")
            => g.pc = IF events[f.ev] THEN "dead" ELSE "w_iter"
       /\ (f.pc = "w_iter" /\ g.pc # "w_iter") => g.pc = "send"
       /\ (g.pc = "dead" /\ f.pc # "dead") => events[f.ev]

C20_FailedTaskGoesOn == [][C20_Step]_vars

\* a task whose send failed at the device is back at the loop head with its
\* stop event not set
C20_Witness ==
  \E w \in Workers :
    /\ proc[w].pc = "w_check" /\ proc[w].err = "device"
    /\ ~ events[proc[w].ev]

\* the tasks that run and whose stop event nobody has set
Unsignalled == {w \in Workers : Alive(w) /\ ~ events[proc[w].ev]}

\* C15: whatever way the set_mode and close calls of one or several threads
\* interleave, at no moment do two background tasks exist whose stop event
\* is not set: by the time _start_worker has started a task, the event of
\* every task started before it is set.
C15_OneUnsignalledTask == Cardinality(Unsignalled) <= 1

\* thread p is at ser.write(data): between the return of _ensure_serial and
\* the return of the write (or of its retry)
InWrite(p) == proc[p].pc \in {"write", "retry"}

\* C16: no two threads are at a write to the serial transport at the same
\* time, whether the writes come from handle_beat, from set_mode / set_color
\* on another thread, or from a background task, an abandoned one included.
C16_OneWriter == Cardinality({p \in Procs : InWrite(p)}) <= 1
\* C26: two mirrors that were given the same commands at the same times
\* report the same levels at every time at which both are polled, whenever
\* and however often each of them was polled before.
C26_PollsDoNotMatter ==
  (sim_op = "tick" /\ twin.polled = mono) => current = twin.current

\* the command given: a fading one or an immediate set
Fading(cmd) == cmd.state = "rgb" /\ (cmd.fade_in_ms > 0 \/ cmd.fade_out_ms > 0)

\* what one advance at the reading mono of the clock may do to channel i: an
\* idle channel stays as it is and keeps its level; a channel fading in goes
\* on to "out" (to "idle" with no fade-out) and shows its target once the
\* fade-in time is over, and stays "in" before; a channel fading out goes
\* idle and shows 0 once the fade-out time is over, and stays "out" before
Forward(i) ==
  LET f == fades[i]
      g == fades'[i]
      over == mono - f.phase_start_ms
  IN CASE f.phase = "idle" -> g = f /\ current'[i] = current[i]
       [] f.phase = "in" ->
            IF over >= f.fade_in_ms
              THEN /\ g = [f EXCEPT !.phase_start_ms = mono,
                                    !.phase = IF f.fade_out_ms > 0 THEN "out" ELSE "idle"]
                   /\ current'[i] = f.target
              ELSE g = f /\ current'[i] <= f.target
       [] f.phase = "out" ->
            IF over >= f.fade_out_ms
              THEN g.phase = "idle" /\ current'[i] = 0
              ELSE g = f /\ current'[i] <= f.target

C27_Step == sim_op' = "tick" => \A i \in 1..3 : Forward(i)

\* C27: a poll moves a channel only forward through its phases: from "in"
\* to "out" (to "idle" when the fade-out is 0) at the first poll at which the
\* fade-in time is over, showing exactly the target; from "out" to "idle" at
\* the first poll at which the fade-out time is over, showing exactly 0; an
\* idle channel is left alone and its level is kept.
C27_ForwardOnly == [][C27_Step]_vars

\* RGB 0 100 0 2 2 given at time 0; the green channel went through "in" and
\* "out" and a poll at 4 or later found it idle at level 0
C27_Witness ==
  /\ sim_op = "tick"
  /\ sim_cmd.rgb = <<0, 100, 0>> /\ sim_cmd.fade_in_ms = 2 /\ sim_cmd.fade_out_ms = 2
  /\ sim_cmd.at = 0 /\ mono >= 4
  /\ fades[2].phase = "idle" /\ current[2] = 0

\* C28: when a fading command (one of the two fades > 0) given at time now
\* has returned, every channel with a target > 0 is in phase "in" if the
\* fade-in is > 0 and in phase "out" otherwise, its phase started at now, and
\* it shows 0 if the fade-in is > 0 and exactly its target otherwise,
\* whatever it showed before.
C28_Restart ==
  (sim_op = "rgb" /\ Fading(sim_cmd))
  => \A i \in 1..3 :
       sim_cmd.rgb[i] > 0 =>
         /\ fades[i].phase = IF sim_cmd.fade_in_ms > 0 THEN "in" ELSE "out"
         /\ fades[i].phase_start_ms = mono
         /\ fades[i].target = sim_cmd.rgb[i]
         /\ fades[i].fade_in_ms = sim_cmd.fade_in_ms
         /\ fades[i].fade_out_ms = sim_cmd.fade_out_ms
         /\ current[i] = IF sim_cmd.fade_in_ms > 0 THEN 0 ELSE sim_cmd.rgb[i]

\* RGB 0 100 0 2 4 given at a time after 0 while red and blue still show a
\* level of an earlier command: green is back at 0, in phase "in"
C28_Witness ==
  /\ sim_op = "rgb" /\ mono > 0
  /\ sim_cmd.rgb = <<0, 100, 0>> /\ sim_cmd.fade_in_ms = 2 /\ sim_cmd.fade_out_ms = 4
  /\ current[1] > 0 /\ current[2] = 0 /\ fades[2].phase = "in"

C29_StepLiteral ==
  (sim_op' = "rgb" /\ Fading(sim_cmd'))
  => \A i \in 1..3 : sim_cmd'.rgb[i] = 0 => fades'[i] = fades[i]

\* C29 as stated: a fading command leaves the phase, target, durations and
\* phase start time of every channel whose target in the command is 0 as
\* they were.
C29_ZeroChannelsUntouched == [][C29_StepLiteral]_vars

C29_Step ==
  (sim_op' = "rgb" /\ Fading(sim_cmd'))
  => \A i \in 1..3 : sim_cmd'.rgb[i] = 0 => Forward(i)

\* C29: a fading command never restarts a channel whose target in the command
\* is 0: all it does to such a channel is what a poll at that moment does
\* (it stays in its phase, or moves on from "in" or from "out" if that
\* phase's time is over), so a fade running on it goes on.
C29_ZeroChannelsNotRestarted == [][C29_Step]_vars

\* RGB 50 50 50 with fades, then RGB 0 100 0 with fades while red was still
\* fading: a later poll shows red and green both above 0
C29_Witness ==
  /\ sim_op = "tick"
  /\ sim_cmd.rgb = <<0, 100, 0>> /\ Fading(sim_cmd)
  /\ fades[1].phase # "idle" /\ fades[1].target = 50
  /\ fades[1].phase_start_ms < sim_cmd.at
  /\ current[1] > 0 /\ current[2] > 0
\* thread p is past the transport: the call has returned to its caller,
\* or the task is back in its loop
PastTransport(p) == proc[p].pc \notin {"send", "open", "write", "retry", "hb_stamp"}

\* C21: for every command a thread hands to _write_line: a write-timeout of
\* the first ser.write is followed by exactly one more write of the same
\* command (after reset_output_buffer); if that one fails as well the error
\* leaves the call and the command is not written a third time; an error of
\* the first write that is not a write-timeout leaves the call at once,
\* with no second write.
C21_OneRetry ==
  \A p \in Procs :
    LET f == proc[p]
        e == f.werrs
    IN /\ Len(e) + Len(f.wrote) <= 2
       /\ f.pc = "retry" => e = <<"timeout">> /\ f.wrote = <<>>
       /\ (e # <<>> /\ e[1] = "device")
            => Len(e) = 1 /\ f.wrote = <<>> /\ f.err = "device" /\ PastTransport(p)
       /\ Len(e) = 2
            => /\ e = <<"timeout", "device">>
               /\ f.wrote = <<>> /\ f.err = "device" /\ PastTransport(p)
       /\ (e = <<"timeout">> /\ f.pc # "retry")
            => Len(f.wrote) = 1 /\ f.err = "none"

\* set_mode(OFF): the first write timed out and the second one failed; the
\* call has returned with the error and nothing is on the wire
C21_Witness ==
  /\ Ui.pc = "idle" /\ Ui.op = "set_mode" /\ Ui.a_mode = "off"
  /\ Ui.werrs = <<"timeout", "device">> /\ Ui.err = "device"
  /\ Ui.sent = <<OffLine>> /\ Ui.wrote = <<>>
\* C24: a handle_beat call that comes less than 200 ms (2 ticks) after a
\* beat that was accepted in a beat-driven mode is dropped: it does not pass
\* the duplicate test and hands nothing to the transport, also when the
\* accepted beat before it only counted (FADE_SYNC_EVERY_4) and sent nothing.
C24_DuplicateDropped ==
  (Ui.op = "handle_beat" /\ Ui.pc # "hb_check"
     /\ Ui.since_acc >= 0 /\ Ui.since_acc < DebounceTicks)
  => ~ Ui.accepted /\ Ui.sent = <<>>
C25_Step ==
  (/\ mode \notin BeatModes
   /\ proc'["ui"] # Ui
   /\ \/ Ui.op = "handle_beat" /\ Ui.pc \in {"hb_check", "hb_read"}
      \/ Ui.pc = "idle" /\ proc'["ui"].op = "handle_beat" /\ proc'["ui"].pc # "idle")
  => /\ proc'["ui"].pc \in {"hb_check", "hb_read", "idle"}
     /\ proc'["ui"].sent = <<>> /\ proc'["ui"].wrote = <<>>
     /\ proc'["ui"].err = "none"
     /\ UNCHANGED <<mode, color, fade_out_ms, beat_counter, cycle_index,
                    last_beat_send_ts, wire, mirror_last>>

\* C25: while the mode is OFF, ON, AUTO_RGB_FADE, SLIDER_SLOW_FADE or STROBE a
\* handle_beat call goes from its call to its return without handing
\* anything to the transport, and none of its steps changes the mode, the
\* static colour, the decay, the beat counter, the cycle index or the
\* timestamp of the last beat sent.
C25_BeatIgnored == [][C25_Step]_vars

\* handle_beat has returned in STROBE while the task runs; nothing was sent
\* by the call
C25_Witness ==
  /\ Ui.pc = "idle" /\ Ui.op = "handle_beat" /\ Ui.accepted
  /\ mode = "strobe" /\ Ui.l_mode = "strobe"
  /\ Ui.sent = <<>> /\ Ui.wrote = <<>>
  /\ \E w \in Workers : Alive(w) /\ proc[w].l_mode = "strobe"
\* the command of one iteration of a SLIDER_SLOW_FADE or STROBE task that
\* found the static colour c
StaticLine(m, c) ==
  IF m = "slider_slow_fade" THEN <<"RGB", c[1], c[2], c[3], 1200, 1200>>
                            ELSE <<"RGB", c[1], c[2], c[3], 0, 25>>

C30_Step ==
  \A w \in Workers :
    proc[w].l_mode \in {"slider_slow_fade", "strobe"}
    => /\ (proc[w].pc = "w_iter" /\ proc'[w].pc # "w_iter")
            => /\ proc'[w].pc = "send"
               /\ proc'[w].line = StaticLine(proc[w].l_mode, color)
       /\ (proc[w].pc \in {"send", "open", "write"} /\ proc'[w] # proc[w])
            => /\ proc'[w].pc \in {"open", "write"}
                    => proc'[w].line = proc[w].line /\ proc'[w].sent = <<proc[w].line>>
               /\ wire' # wire => wire' = [line |-> proc[w].line, by |-> w]

EngineFields == <<mode, color, fade_out_ms, beat_counter, cycle_index, last_beat_send_ts>>

\* the step thread p is taking runs inside a `with self._lock` block that
\* writes engine fields: the lock blocks of set_mode, handle_beat,
\* _next_cycle_color, set_color and set_decay_ms
InLockBlock(p) ==
  /\ proc'[p] # proc[p]
  /\ \/ proc[p].pc \in {"sm_lock", "hb_read", "hb_next", "hb_count", "w_iter"}
     \/ proc[p].pc = "idle" /\ proc'[p].op \in {"set_color", "set_decay_ms"}

C22_Step == EngineFields' # EngineFields => \E p \in Procs : InLockBlock(p)

\* C22: every step that changes the mode, the static colour, the decay, the
\* beat counter, the cycle index or the timestamp of the last beat sent is a
\* step inside a `with self._lock` block of the thread that takes it, in
\* set_mode, set_color, set_decay_ms, handle_beat and the background task.
C22_WritesUnderLock == [][C22_Step]_vars

\* thread p is calling the mirror, opening the port or writing to it
InIo(p) == proc[p].pc \in {"send", "open", "write", "retry"}

\* C23: no thread holds the lock while it calls the mirror, opens the serial
\* port or writes to it; so while a background thread sits in its open or
\* write, the foreground thread can run the lock block of set_mode and of
\* handle_beat, a set_decay_ms call and, outside ON, a set_color call.
C23_NoIoUnderLock ==
  /\ \A p \in Procs : InIo(p) => lock # p
  /\ (\E w \in Workers : proc[w].pc \in {"open", "write", "retry"})
       => /\ Ui.pc = "sm_lock" => ENABLED SmLock("ui")
          /\ Ui.pc = "hb_read" => ENABLED HbRead("ui")
          /\ Ui.pc = "hb_count" => ENABLED HbCount("ui")
          /\ (Ui.pc = "idle" /\ budget # 0)
               => /\ ENABLED SetDecayMs("ui", 20000)
                  /\ mode # "on" => ENABLED SetColor("ui", <<-20, 300, 128>>)

\* the STROBE task sits in its write of a command with the old colour while
\* a set_color call has come and gone
C23_Witness ==
  /\ \E w \in Workers : proc[w].pc = "write" /\ proc[w].line = <<"RGB", 0, 0, 0, 0, 25>>
  /\ Ui.pc = "idle" /\ Ui.op = "set_color" /\ color = <<0, 255, 128>>
  /\ mode = "strobe"
\* task w runs and its stop event is set
Signalled(w) == Alive(w) /\ events[proc[w].ev]

\* the places of one iteration, in the order a task passes them
IterRank(pc) ==
  CASE pc = "w_iter" -> 0
    [] pc = "send" -> 1
    [] pc = "open" -> 2
    [] pc = "write" -> 3
    [] pc = "retry" -> 4
    [] pc = "w_wait" -> 5
    [] OTHER -> 6

\* a step of a signalled task: from its wait it goes to the loop head and
\* from there it ends, writing nothing; inside an iteration it only moves on
\* through that iteration, and the wire changes only with the step that ends
\* the write (or its retry) with the command of that iteration
C31_Step ==
  /\ \A i \in 1..Len(events) : events[i] => events'[i]
  /\ \A w \in Workers :
       /\ proc[w].pc = "dead" => proc'[w].pc = "dead"
       /\ (Signalled(w) /\ proc'[w] # proc[w])
            => /\ proc'[w].ev = proc[w].ev
               /\ proc[w].pc = "w_wait"
                    => proc'[w].pc = "w_check" /\ wire' = wire
               /\ proc[w].pc = "w_check"
                    => proc'[w].pc = "dead" /\ wire' = wire
               /\ proc[w].pc \in {"w_iter", "send", "open", "write", "retry"}
                    => /\ IterRank(proc'[w].pc) \in (IterRank(proc[w].pc) + 1)..5
                       /\ (proc[w].pc # "w_iter" /\ proc'[w].pc # "w_wait")
                            => proc'[w].line = proc[w].line
                       /\ wire' # wire
                            => /\ proc[w].pc \in {"write", "retry"}
                               /\ proc'[w].pc = "w_wait"
                               /\ wire' = [line |-> proc[w].line, by |-> w]

\* C31: a task whose stop event is set writes at most the command of the
\* iteration it was in when the event was set: inside an iteration it only
\* goes on to the wait, writing at most once on the way; from the wait it goes
\* to the loop head and from the loop head it ends, writing nothing; its
\* event stays set; and (the task being scheduled) it does end.
C31_CancelledTaskEnds ==
  /\ [][C31_Step]_vars
  /\ \A w \in Workers : Signalled(w) ~> proc[w].pc = "dead"

\* set_mode(OFF) set the stop event of the STROBE task, gave up the join and
\* wrote OFF; the task then wrote the command of the iteration it was in,
\* and has ended
C31_Witness ==
  \E w \in Workers :
    /\ proc[w].pc = "dead" /\ events[proc[w].ev]
    /\ wire = [line |-> <<"RGB", 0, 0, 0, 0, 25>>, by |-> w]
    /\ Ui.pc = "idle" /\ Ui.op = "set_mode" /\ Ui.a_mode = "off"
    /\ Ui.wrote = <<OffLine>>
\* C32: whenever the controller holds an open connection, that connection
\* was opened on the port name that is configured now, however set_com_port
\* interleaves with the sends of the other threads.
C32_ConnectionOnConfiguredPort ==
  (serial # 0 /\ conns[serial].open) => conns[serial].port = com_port
\* C33: once set_mode(OFF) has returned after writing OFF, and while the only
\* other call made since is a handle_beat that read a beat-driven mode (so it
\* was invoked before set_mode(OFF) had changed the mode) and no task was
\* ever started, the last line written to the wire is OFF.
C33_OffIsLastLine ==
  (/\ Ui.pc = "idle" /\ Ui.op = "set_mode" /\ Ui.a_mode = "off"
   /\ Ui.wrote = <<OffLine>>
   /\ proc["midi"].op = "handle_beat" /\ proc["midi"].accepted
   /\ proc["midi"].l_mode \in BeatModes
   /\ \A w \in Workers : proc[w].pc = "unborn")
  => wire.line = OffLine
\* thread t is inside a set_mode or a close call
Switching(t) == proc[t].pc # "idle" /\ proc[t].op \in {"set_mode", "close"}

\* C34: whenever no set_mode or close call is in progress, every task that
\* runs and whose stop event is not set was started for the mode the
\* controller is in, whatever way the set_mode calls of one or several
\* threads interleaved.
C34_TaskMatchesMode ==
  (\A t \in Callers : ~ Switching(t))
  => \A w \in Unsignalled : proc[w].l_mode = mode
C35_Step ==
  (/\ Ui.op = "handle_beat" /\ Ui.pc # "idle"
   /\ proc'["ui"].pc = "idle" /\ proc'["ui"].err # "none")
  => <<beat_counter', cycle_index', last_beat_send_ts'>> = Ui.pre

\* C35: when a handle_beat call returns with the error of its send, the beat
\* counter, the cycle index and the timestamp of the last beat sent are what
\* they were when the call was made, in FADE_SYNC, BEAT_RGB_STEP and
\* FADE_SYNC_EVERY_4 alike.
C35_FailedBeatKeepsState == [][C35_Step]_vars
C36_Step ==
  \A p \in Procs :
    LET f == proc[p]
        g == proc'[p]
    IN /\ (f.pc = "send" /\ g # f)
            => /\ wire' = wire
               /\ \/ mirror_last' = f.line
                  \/ mirror_last' = mirror_last /\ (p \in Callers => g.sink_raised)
               /\ g.pc \in {"open", "write"}
                    => g.sunk = <<f.line>> /\ g.line = f.line /\ g.wrote = <<>>
       /\ f.pc \in {"open", "write", "retry"} => f.sunk = <<f.line>>
       /\ (p \in Callers /\ f.pc \in {"send", "open", "write", "retry"}
              /\ g.pc = "idle" /\ g.err # "none")
            => /\ g.sunk = <<f.line>>
               /\ g.wrote = <<>>
               /\ wire' = wire

\* C36: the mirror is called with a command in the step that begins its send,
\* before the port is opened and before the write is tried, and that step
\* writes nothing; a thread at serial.Serial(...) or at ser.write(...) has
\* already given its command to the mirror; and a call that returns with the
\* error of its send (no port configured, device error) has given its
\* command to the mirror and written nothing.
C36_SinkBeforeWrite == [][C36_Step]_vars

\* set_mode(ON) failed at the device: the mirror holds RGB 0 255 128 0 0, a
\* command that never reached the wire
C36_Witness ==
  /\ Ui.pc = "idle" /\ Ui.op = "set_mode" /\ Ui.a_mode = "on" /\ Ui.err = "device"
  /\ ~ Ui.sink_raised
  /\ mirror_last = <<"RGB", 0, 255, 128, 0, 0>>
  /\ Ui.sunk = <<mirror_last>> /\ Ui.wrote = <<>>
  /\ wire.line = NoLine
\* what a poll at the reading mono of the clock leaves of channel i: a
\* channel still fading has time left in its phase; an idle channel stays
\* idle and keeps its level; a channel that ends shows 0 if it had a
\* fade-out and its target if it had none
Settles(i) ==
  LET f == fades[i]
      g == fades'[i]
  IN /\ g.phase = "in" => mono < g.phase_start_ms + g.fade_in_ms
     /\ g.phase = "out" => mono < g.phase_start_ms + g.fade_out_ms
     /\ f.phase = "idle" => g.phase = "idle" /\ current'[i] = current[i]
     /\ (f.phase # "idle" /\ g.phase = "idle")
          => current'[i] = IF f.fade_out_ms > 0 THEN 0 ELSE f.target

C37_Step == sim_op' = "tick" => \A i \in 1..3 : Settles(i)

\* C37: after a fading command and with no further command, the polls bring
\* every restarted channel to "idle", where it stays: no poll leaves a
\* channel in a phase whose time is over (so the first poll at or after the
\* end of the fade-in ends the "in" phase, and the first poll a fade-out time
\* or more after that one ends the "out" phase); a poll leaves an idle
\* channel idle with its level; and the level a channel ends with is 0 when
\* its fade-out is > 0 and its target when the fade-out is 0.
C37_FadeSettles == [][C37_Step]_vars

\* RGB 0 100 0 with fade-in 2 and fade-out 0: a poll made after the end of
\* the fade-in has left the green channel idle at its target
C37_Witness ==
  /\ sim_op = "tick"
  /\ sim_cmd.rgb = <<0, 100, 0>> /\ sim_cmd.fade_in_ms = 2 /\ sim_cmd.fade_out_ms = 0
  /\ mono > sim_cmd.at + 2
  /\ fades[2].phase = "idle" /\ current[2] = 100
====
